---- MODULE Spec2Model ----
(***************************************************************************)
(* A model of genshin.py (class HoyoLab and the __main__ pipeline):        *)
(*   - find_min_entity_needed      greedy cover of the material universe   *)
(*   - calculate_selected_materials request list, chunks, simulate calls   *)
(*   - clean_up_materials          name normalisation, dedup, tier chains  *)
(*   - process_item_iterative      redistribution of extra along a chain   *)
(*   - __main__                    the pipeline up to dump_good            *)
(* Python lists are sequences (1-based here, 0-based in the source), dicts *)
(* are sequences of entries in insertion order, None is the empty sequence *)
(* for an optional value and 0 for an optional index.                      *)
(***************************************************************************)
EXTENDS Integers, Sequences, FiniteSets, TLC

VARIABLES
    \* find_min_entity_needed
    sel_pc, item_materials_dict, item_materials_dict_copy, all_materials,
    selected_entities, covered_materials,
    \* name normalisation of clean_up_materials, applied repeatedly
    good_names,
    \* clean_up_materials and process_item_iterative
    clean_pc, materials_arg, material_i, cleaned_items, materials_group_to_check,
    chain_i, current_index, next_valid_index,
    \* calculate_selected_materials
    calc_pc, avatars, weapons, entities, count, avatar_objs, calculate_list,
    chunk_i, simulated, raised_at, result,
    \* __main__ and get_all_materials
    main_pc, remote_materials, json_cache, materials, materials_in_inventory,
    cleaned_materials, good_materials_json

selVars == <<sel_pc, item_materials_dict, item_materials_dict_copy, all_materials,
             selected_entities, covered_materials>>
normVars == <<good_names>>
cleanVars == <<clean_pc, materials_arg, material_i, cleaned_items,
               materials_group_to_check, chain_i, current_index, next_valid_index>>
calcVars == <<calc_pc, avatars, weapons, entities, count, avatar_objs,
              calculate_list, chunk_i, simulated, raised_at, result>>
mainVars == <<main_pc, remote_materials, json_cache, materials,
              materials_in_inventory, cleaned_materials, good_materials_json>>
vars == <<selVars, normVars, cleanVars, calcVars, mainVars>>

(***************************************************************************)
(* Bounds of the model.                                                    *)
(***************************************************************************)
MaxEntities == 3
MaxMaterials == 3
MaxNameLen == 3
\* Materials of the inventory clean_up_materials is run on, and the longest
\* list of raw records with colliding names.
NumPoolMaterials == 8
MaxDupRecords == 3
\* Avatars and weapons the remote lists hold, the largest count argument of a
\* direct call, and the materials the remote items draw on.
MaxAvatars == 3
MaxWeapons == 2
MaxCount == 3
MainMaterials == 3

RECURSIVE SeqSum(_)
SeqSum(s) == IF s = <<>> THEN 0 ELSE s[1] + SeqSum(Tail(s))

Range(s) == {s[i] : i \in 1..Len(s)}

(***************************************************************************)
(* Catalog keys.  get_all_materials returns either the freshly computed    *)
(* dict, keyed by the integer item id, or the dict json.load read from the *)
(* cache file, keyed by the decimal string json.dump wrote for that id.    *)
(***************************************************************************)
RECURSIVE StrOfNat(_)
StrOfNat(n) == IF n < 10 THEN <<n>> ELSE StrOfNat(n \div 10) \o <<n % 10>>

IntKey(n) == [t |-> "int", n |-> n, s |-> <<>>]
StrKey(n) == [t |-> "str", n |-> 0, s |-> StrOfNat(n)]

RECURSIVE IntOfDigits(_)
IntOfDigits(s) ==
    IF s = <<>> THEN 0 ELSE 10 * IntOfDigits(SubSeq(s, 1, Len(s) - 1)) + s[Len(s)]

\* A plausible slip: the last digit of a string key is dropped.
IntOfDropsDigit(key) ==
    IF key.t = "int" THEN key.n ELSE IntOfDigits(SubSeq(key.s, 1, Len(key.s) - 1))

\* int(best_entity)
IntOf(key) == IF key.t = "int" THEN key.n ELSE IntOfDigits(key.s)

(***************************************************************************)
(* find_min_entity_needed.  A catalog is the sequence of its entries       *)
(* [key, materials] in dict order; materials is the set the code makes of  *)
(* the entry's list (set(materials)).                                      *)
(***************************************************************************)
AllMaterials(dict) == UNION {dict[i].materials : i \in 1..Len(dict)}

\* A plausible slip: the covered materials are not subtracted.
NewCoverageKeepsCovered(mats, covered) == mats

NewCoverage(mats, covered) == mats \ covered

NoBest == [entity |-> <<>>, coverage |-> {}]

\* The for loop of lines 134-138 from entry i on; best is (best_entity, best_coverage).
RECURSIVE ScanBest(_, _, _, _)
ScanBest(pool, i, covered, best) ==
    IF i > Len(pool) THEN best
    ELSE LET new_coverage == NewCoverage(pool[i].materials, covered)
         IN  ScanBest(pool, i + 1, covered,
                      IF Cardinality(new_coverage) > Cardinality(best.coverage)
                      THEN [entity |-> <<pool[i].key>>, coverage |-> new_coverage]
                      ELSE best)

\* del item_materials_dict_copy[best_entity]
DelKey(pool, key) == SelectSeq(pool, LAMBDA e : e.key # key)

\* The whole function: [ok, entities]; ok is FALSE when int(None) raises.
RECURSIVE SelectLoop(_, _, _, _)
SelectLoop(pool, all, covered, selected) ==
    IF covered = all THEN [ok |-> TRUE, entities |-> selected]
    ELSE LET best == ScanBest(pool, 1, covered, NoBest)
         IN  IF best.entity = <<>> THEN [ok |-> FALSE, entities |-> selected]
             ELSE SelectLoop(DelKey(pool, best.entity[1]), all,
                             covered \cup best.coverage,
                             Append(selected, IntOf(best.entity[1])))

FindMinEntityNeeded(dict) == SelectLoop(dict, AllMaterials(dict), {}, <<>>)

\* Item ids of the catalogs the selector is run on: one and two digit ids.
SelEntityId(i) == 7 + i

\* The catalog with n entries of the given key kind and materials m[i].
SelCatalog(n, kind, m) ==
    [i \in 1..n |-> [key |-> IF kind = "int" THEN IntKey(SelEntityId(i))
                             ELSE StrKey(SelEntityId(i)),
                      materials |-> m[i]]]

SelIdle ==
    /\ sel_pc = "idle"
    /\ item_materials_dict = <<>>
    /\ item_materials_dict_copy = <<>>
    /\ all_materials = {}
    /\ selected_entities = <<>>
    /\ covered_materials = {}

SelInit ==
    /\ sel_pc = "start"
    /\ \E n \in 0..MaxEntities, kind \in {"int", "str"} :
           \E m \in [1..n -> SUBSET (1..MaxMaterials)] :
               item_materials_dict = SelCatalog(n, kind, m)
    /\ item_materials_dict_copy = <<>>
    /\ all_materials = {}
    /\ selected_entities = <<>>
    /\ covered_materials = {}

\* Lines 120-126.
SelBegin ==
    /\ sel_pc = "start"
    /\ item_materials_dict_copy' = item_materials_dict
    /\ all_materials' = AllMaterials(item_materials_dict)
    /\ selected_entities' = <<>>
    /\ covered_materials' = {}
    /\ sel_pc' = "loop"
    /\ UNCHANGED item_materials_dict

\* One iteration of the while loop, lines 129-142.
SelIterate ==
    /\ sel_pc = "loop"
    /\ covered_materials # all_materials
    /\ LET best == ScanBest(item_materials_dict_copy, 1, covered_materials, NoBest)
       IN  IF best.entity = <<>>
           THEN /\ sel_pc' = "TypeError"
                /\ UNCHANGED <<selected_entities, covered_materials,
                               item_materials_dict_copy>>
           ELSE /\ selected_entities' =
                       Append(selected_entities, IntOf(best.entity[1]))
                /\ covered_materials' = covered_materials \cup best.coverage
                /\ item_materials_dict_copy' =
                       DelKey(item_materials_dict_copy, best.entity[1])
                /\ sel_pc' = "loop"
    /\ UNCHANGED <<item_materials_dict, all_materials>>

\* Line 144.
SelReturn ==
    /\ sel_pc = "loop"
    /\ covered_materials = all_materials
    /\ sel_pc' = "done"
    /\ UNCHANGED <<item_materials_dict, item_materials_dict_copy, all_materials,
                   selected_entities, covered_materials>>

(***************************************************************************)
(* Name normalisation, lines 245-246.  A name is a sequence of characters. *)
(***************************************************************************)
LowerCase == <<"a", "b", "c", "d", "e", "f", "g", "h", "i", "j", "k", "l", "m",
               "n", "o", "p", "q", "r", "s", "t", "u", "v", "w", "x", "y", "z">>
UpperCase == <<"A", "B", "C", "D", "E", "F", "G", "H", "I", "J", "K", "L", "M",
               "N", "O", "P", "Q", "R", "S", "T", "U", "V", "W", "X", "Y", "Z">>
DigitChars == {"0", "1", "2", "3", "4", "5", "6", "7", "8", "9"}

Upper(c) == IF \E i \in 1..Len(LowerCase) : LowerCase[i] = c
            THEN UpperCase[CHOOSE i \in 1..Len(LowerCase) : LowerCase[i] = c]
            ELSE c
Lower(c) == IF \E i \in 1..Len(UpperCase) : UpperCase[i] = c
            THEN LowerCase[CHOOSE i \in 1..Len(UpperCase) : UpperCase[i] = c]
            ELSE c

\* \w of the re module: letters, digits and the underscore.
IsWordChar(c) == c \in Range(LowerCase) \cup Range(UpperCase) \cup DigitChars \cup {"_"}

\* str.strip('"')
RECURSIVE LStripQuote(_)
LStripQuote(s) == IF s # <<>> /\ s[1] = "\"" THEN LStripQuote(Tail(s)) ELSE s
RECURSIVE RStripQuote(_)
RStripQuote(s) == IF s # <<>> /\ s[Len(s)] = "\""
                  THEN RStripQuote(SubSeq(s, 1, Len(s) - 1)) ELSE s
StripQuotes(s) == RStripQuote(LStripQuote(s))

\* re.split(r"[- ]", s): the list of words, empty words included.
RECURSIVE SplitFrom(_, _)
SplitFrom(s, word) ==
    IF s = <<>> THEN <<word>>
    ELSE IF s[1] \in {"-", " "} THEN <<word>> \o SplitFrom(Tail(s), <<>>)
    ELSE SplitFrom(Tail(s), Append(word, s[1]))
Split(s) == SplitFrom(s, <<>>)

\* A plausible slip: the rest of the word keeps its case.
CapitalizeKeepsRest(word) ==
    IF word = <<>> THEN <<>>
    ELSE [i \in 1..Len(word) |-> IF i = 1 THEN Upper(word[i]) ELSE word[i]]

\* str.capitalize(): first character upper case, the rest lower case.
Capitalize(word) ==
    IF word = <<>> THEN <<>>
    ELSE [i \in 1..Len(word) |-> IF i = 1 THEN Upper(word[i]) ELSE Lower(word[i])]

\* " ".join(words)
RECURSIVE JoinSpace(_)
JoinSpace(words) ==
    IF Len(words) = 0 THEN <<>>
    ELSE IF Len(words) = 1 THEN words[1]
    ELSE words[1] \o <<" ">> \o JoinSpace(Tail(words))

\* re.sub(r"[\W]", "", s)
DropNonWord(s) == SelectSeq(s, IsWordChar)

GoodName(name) ==
    LET words == Split(StripQuotes(name))
    IN  DropNonWord(JoinSpace([i \in 1..Len(words) |-> Capitalize(words[i])]))

NameAlphabet == {"a", "A", "1", "_", " ", "-", "'", "\""}

NormIdle == good_names = <<>>

NormInit ==
    \E n \in 0..MaxNameLen : \E name \in [1..n -> NameAlphabet] : good_names = <<name>>

\* The normalisation applied to the name obtained last.
NormApply ==
    /\ Len(good_names) \in 1..3
    /\ good_names' = Append(good_names, GoodName(good_names[Len(good_names)]))

(***************************************************************************)
(* clean_up_materials.  A raw record is [id, name, num, lack_num, extra];  *)
(* cleaned_items is the dict as the sequence of its values in insertion    *)
(* order, each [good, id, extra, num].                                     *)
(***************************************************************************)
NewNum(material) == material.num - material.lack_num + material.extra

\* Position of the entry with key good, 0 when the key is absent.
IndexOfGood(items, good) ==
    IF \E k \in 1..Len(items) : items[k].good = good
    THEN CHOOSE k \in 1..Len(items) : items[k].good = good
    ELSE 0

CleanedItem(material) ==
    [good |-> GoodName(material.name), id |-> material.id,
     extra |-> material.extra, num |-> NewNum(material)]

\* A plausible slip: >= lets a later record with the same num replace the item.
DedupStepLastWins(items, material) ==
    LET k == IndexOfGood(items, GoodName(material.name))
    IN  IF k = 0 THEN Append(items, CleanedItem(material))
        ELSE IF NewNum(material) >= items[k].num
             THEN [items EXCEPT ![k] = CleanedItem(material)]
             ELSE items

\* One iteration of the loop of lines 244-256.
DedupStep(items, material) ==
    LET k == IndexOfGood(items, GoodName(material.name))
    IN  IF k = 0 THEN Append(items, CleanedItem(material))
        ELSE IF NewNum(material) > items[k].num
             THEN [items EXCEPT ![k] = CleanedItem(material)]
             ELSE items

RECURSIVE DedupFrom(_, _, _)
DedupFrom(items, mats, i) ==
    IF i > Len(mats) THEN items
    ELSE DedupFrom(DedupStep(items, mats[i]), mats, i + 1)

\* sorted(..., key=id, reverse=True): stable, so equal ids keep their order.
RECURSIVE InsertDesc(_, _)
InsertDesc(sorted, x) ==
    IF sorted = <<>> THEN <<x>>
    ELSE IF Head(sorted).id >= x.id THEN <<Head(sorted)>> \o InsertDesc(Tail(sorted), x)
    ELSE <<x>> \o sorted

RECURSIVE SortedFrom(_, _, _)
SortedFrom(sorted, items, i) ==
    IF i > Len(items) THEN sorted
    ELSE SortedFrom(InsertDesc(sorted, items[i]), items, i + 1)

SortedCleanedItems(items) == SortedFrom(<<>>, items, 1)

\* The id ranges of lines 266-274.
WeaponAscensionFloor == 114000
GemFloor == 104100
GemCeiling == 104300
BookCeiling == 113000
CrownOfInsight == 104319

IsFourTier(item_id) ==
    item_id > WeaponAscensionFloor \/ (GemFloor < item_id /\ item_id < GemCeiling)

IsThreeTier(item_id) ==
    /\ ~IsFourTier(item_id)
    /\ GemCeiling < item_id /\ item_id < BookCeiling /\ item_id # CrownOfInsight

\* material_groups[tier] after the loop of lines 264-274.
MaterialGroup(sorted, tier) ==
    IF tier = 4 THEN SelectSeq(sorted, LAMBDA d : IsFourTier(d.id))
    ELSE SelectSeq(sorted, LAMBDA d : IsThreeTier(d.id))

Reverse(s) == [i \in 1..Len(s) |-> s[Len(s) + 1 - i]]

Min(a, b) == IF a < b THEN a ELSE b

\* A plausible slip: a last chunk shorter than the tier is dropped.
ChunkStartsFullOnly(len, size) == {k \in 0..(len - 1) : k % size = 0 /\ k + size <= len}

\* range(0, len, size), as 0-based start offsets.
ChunkStarts(len, size) == {k \in 0..(len - 1) : k % size = 0}

\* [list[i:i + size] for i in range(0, len(list), size)]
Chunked(list, size) ==
    LET starts == ChunkStarts(Len(list), size)
    IN  [c \in 1..Cardinality(starts) |->
            SubSeq(list, (c - 1) * size + 1, Min(c * size, Len(list)))]

\* The chains of one tier, lines 277-279: each chunk's names, reversed.
TierChains(sorted, tier) ==
    LET chunks == Chunked(MaterialGroup(sorted, tier), tier)
    IN  [c \in 1..Len(chunks) |->
            Reverse([j \in 1..Len(chunks[c]) |-> chunks[c][j].good])]

\* A plausible slip: the list of chains is not reversed.
ChainOrderNotReversed(chains) == chains

\* materials_group_to_check.reverse(), line 282.
ChainOrder(chains) == Reverse(chains)

\* Lines 258-282: tier 4 is the first key of material_groups, tier 3 the second.
MaterialsGroupToCheck(items) ==
    LET sorted == SortedCleanedItems(items)
    IN  ChainOrder(TierChains(sorted, 4) \o TierChains(sorted, 3))

(***************************************************************************)
(* process_item_iterative.  good_result is cleaned_items, looked up by     *)
(* name; positions are 1-based and next_valid_index 0 stands for None.     *)
(***************************************************************************)
ExtraOf(good_result, good) == good_result[IndexOfGood(good_result, good)].extra

\* The search of lines 231-234: the first position after current_index with extra 0.
FirstZeroAfter(item_list, cur_index, good_result) ==
    LET zeros == {i \in (cur_index + 1)..Len(item_list) :
                      ExtraOf(good_result, item_list[i]) = 0}
    IN  IF zeros = {} THEN 0 ELSE CHOOSE i \in zeros : \A j \in zeros : i <= j

\* The cache as the design notes describe it: searched again only when the
\* cached target's extra is non-zero.
MustSearchWhenNonZero(item_list, nvi, good_result) ==
    nvi = 0 \/ ExtraOf(good_result, item_list[nvi]) # 0

\* The condition of line 229.
MustSearch(item_list, nvi, good_result) ==
    nvi = 0 \/ ExtraOf(good_result, item_list[nvi]) = 0

\* A plausible slip: the distance multiplies instead of being the exponent.
AdjustmentLinear(extra, distance) == extra \div (3 * distance)

\* int(extra / 3 ** distance), lines 237-238; a negative distance makes the
\* factor a fraction.
Adjustment(extra, distance) ==
    IF distance >= 0 THEN extra \div (3 ^ distance) ELSE extra * (3 ^ (0 - distance))

\* One iteration of the inner loop, lines 226-238: the new (next_valid_index, good_result).
PositionStep(item_list, cur_index, nvi, good_result) ==
    LET extra == ExtraOf(good_result, item_list[cur_index])
    IN  IF extra > 0
        THEN LET found == IF MustSearch(item_list, nvi, good_result)
                          THEN FirstZeroAfter(item_list, cur_index, good_result)
                          ELSE nvi
             IN  IF found # 0
                 THEN LET k == IndexOfGood(good_result, item_list[found])
                      IN  [nvi |-> found,
                           good_result |->
                               [good_result EXCEPT ![k].num =
                                    @ - Adjustment(extra, found - cur_index)]]
                 ELSE [nvi |-> found, good_result |-> good_result]
        ELSE [nvi |-> nvi, good_result |-> good_result]

RECURSIVE ProcessChainFrom(_, _, _, _)
ProcessChainFrom(item_list, cur_index, nvi, good_result) ==
    IF cur_index > Len(item_list) THEN good_result
    ELSE LET step == PositionStep(item_list, cur_index, nvi, good_result)
         IN  ProcessChainFrom(item_list, cur_index + 1, step.nvi, step.good_result)

RECURSIVE ProcessItemIterativeFrom(_, _, _)
ProcessItemIterativeFrom(groups, c, good_result) ==
    IF c > Len(groups) THEN good_result
    ELSE ProcessItemIterativeFrom(groups, c + 1,
                                  ProcessChainFrom(groups[c], 1, 0, good_result))

\* The whole of clean_up_materials: the returned cleaned_items.
CleanUpMaterials(mats) ==
    LET items == DedupFrom(<<>>, mats, 1)
    IN  ProcessItemIterativeFrom(MaterialsGroupToCheck(items), 1, items)

(***************************************************************************)
(* The inventories clean_up_materials is run on.                           *)
(***************************************************************************)
PoolIds == <<104301, 104302, 104303, 104304, 114001, 114002, 114003, 114004,
             202, 104319, 104101>>
PoolNames == <<
    <<"B", "o", "o", "k", " ", "1">>, <<"B", "o", "o", "k", " ", "2">>,
    <<"B", "o", "o", "k", " ", "3">>, <<"B", "o", "o", "k", " ", "4">>,
    <<"T", "i", "l", "e", "-", "1">>, <<"T", "i", "l", "e", "-", "2">>,
    <<"T", "i", "l", "e", "-", "3">>, <<"T", "i", "l", "e", "-", "4">>,
    <<"M", "o", "r", "a">>, <<"C", "r", "o", "w", "n">>, <<"G", "e", "m">> >>
PoolExtras == <<30, 7, 100, 2, 30, 9, 5, 81, 1000, 1, 3>>
PoolNums == <<70, 55, 21, 64, 300, 200, 100, 50, 5000, 3, 12>>
PoolLacks == <<0, 5, 1, 4, 0, 20, 10, 0, 0, 1, 2>>

\* The record of pool material i with the given extra.
PoolRecord(i, extra) ==
    [id |-> PoolIds[i], name |-> PoolNames[i], num |-> PoolNums[i],
     lack_num |-> PoolLacks[i], extra |-> extra]

\* choice[i]: 0 the material is absent, 1 it has no extra, 2 it has extra.
RECURSIVE PoolRecordsFrom(_, _)
PoolRecordsFrom(choice, i) ==
    IF i > Len(choice) THEN <<>>
    ELSE (IF choice[i] = 0 THEN <<>>
          ELSE <<PoolRecord(i, IF choice[i] = 1 THEN 0 ELSE PoolExtras[i])>>)
         \o PoolRecordsFrom(choice, i + 1)

DupNames == {<<"M", "o", "r", "a">>, <<"m", "o", "r", "a">>, <<"M", "o", "-", "r", "a">>}
DupAmounts == {<<120, 20, 0>>, <<150, 0, 0>>, <<100, 0, 50>>}

DupRecord(i, name, amount) ==
    [id |-> 200 + i, name |-> name, num |-> amount[1], lack_num |-> amount[2],
     extra |-> amount[3]]

CleanIdle ==
    /\ clean_pc = "idle"
    /\ materials_arg = <<>>
    /\ material_i = 0
    /\ cleaned_items = <<>>
    /\ materials_group_to_check = <<>>
    /\ chain_i = 0
    /\ current_index = 0
    /\ next_valid_index = 0

CleanInit ==
    /\ clean_pc = "dedup"
    /\ \/ \E choice \in [1..NumPoolMaterials -> 0..2] :
              materials_arg = PoolRecordsFrom(choice, 1)
       \/ \E n \in 1..MaxDupRecords :
              \E names \in [1..n -> DupNames], amounts \in [1..n -> DupAmounts] :
                  materials_arg = [i \in 1..n |-> DupRecord(i, names[i], amounts[i])]
    /\ material_i = 1
    /\ cleaned_items = <<>>
    /\ materials_group_to_check = <<>>
    /\ chain_i = 0
    /\ current_index = 0
    /\ next_valid_index = 0

\* One iteration of the loop of lines 244-256.
CleanDedup ==
    /\ clean_pc = "dedup"
    /\ material_i <= Len(materials_arg)
    /\ cleaned_items' = DedupStep(cleaned_items, materials_arg[material_i])
    /\ material_i' = material_i + 1
    /\ UNCHANGED <<clean_pc, materials_arg, materials_group_to_check, chain_i,
                   current_index, next_valid_index>>

\* Lines 258-283 up to the call of process_item_iterative.
CleanGroup ==
    /\ clean_pc = "dedup"
    /\ material_i > Len(materials_arg)
    /\ materials_group_to_check' = MaterialsGroupToCheck(cleaned_items)
    /\ clean_pc' = "process"
    /\ chain_i' = 1
    /\ current_index' = 1
    /\ next_valid_index' = 0
    /\ UNCHANGED <<materials_arg, material_i, cleaned_items>>

\* One iteration of the inner loop of process_item_iterative, lines 226-238;
\* after a chain's last position the outer loop moves on and line 225 resets
\* next_valid_index.
ProcessPosition ==
    /\ clean_pc = "process"
    /\ chain_i <= Len(materials_group_to_check)
    /\ LET item_list == materials_group_to_check[chain_i]
           step == PositionStep(item_list, current_index, next_valid_index,
                                cleaned_items)
       IN  /\ cleaned_items' = step.good_result
           /\ IF current_index < Len(item_list)
              THEN /\ current_index' = current_index + 1
                   /\ next_valid_index' = step.nvi
                   /\ chain_i' = chain_i
              ELSE /\ current_index' = 1
                   /\ next_valid_index' = 0
                   /\ chain_i' = chain_i + 1
    /\ UNCHANGED <<clean_pc, materials_arg, material_i, materials_group_to_check>>

\* Line 284.
CleanReturn ==
    /\ clean_pc = "process"
    /\ chain_i > Len(materials_group_to_check)
    /\ clean_pc' = "done"
    /\ UNCHANGED <<materials_arg, material_i, cleaned_items,
                   materials_group_to_check, chain_i, current_index,
                   next_valid_index>>

(***************************************************************************)
(* calculate_selected_materials.  self.avatars and self.weapons are the    *)
(* sequences of the items' ids.  _generate_item_data makes one dict per    *)
(* selected item and [dict] * count repeats a reference to it, so the      *)
(* bodies are sequences of references: avatar_objs[k] is the dict of the   *)
(* k-th selected avatar, with weapon 0 for the empty {}.                   *)
(***************************************************************************)
DefaultCount == 50
ChunkSize == 200
TravelerId == 10000005

AvatarPool == <<TravelerId, 10000002, 10000003, 10000006, 10000007>>
WeaponPool == <<11101, 11201, 11301, 11401>>

\* Lines 188-189.
ToSelect(items, ents) == SelectSeq(items, LAMBDA id : id \in Range(ents))

\* Lines 191-192: count references to each of n dicts, dict after dict.
Body(n, cnt) == [p \in 1..(n * cnt) |-> ((p - 1) \div cnt) + 1]

\* The loop of lines 200-201 from pair p on: zip stops at the shorter body, and
\* of the assignments to one dict's "weapon" the last one stays.
PairFrom(objs, avatar_body, weapon_body, weapons_to_select, p) ==
    LET pairs == p..Min(Len(avatar_body), Len(weapon_body))
        PairsOf(k) == {q \in pairs : avatar_body[q] = k}
        LastOf(k) == CHOOSE q \in PairsOf(k) : \A r \in PairsOf(k) : r <= q
    IN  [k \in 1..Len(objs) |->
            IF PairsOf(k) = {} THEN objs[k]
            ELSE [objs[k] EXCEPT !.weapon = weapons_to_select[weapon_body[LastOf(k)]]]]

AvatarRefs(body) == [p \in 1..Len(body) |-> [kind |-> "avatar", ref |-> body[p]]]
WeaponRefs(body) == [p \in 1..Len(body) |-> [kind |-> "weapon", ref |-> body[p]]]

\* A plausible slip: the weapons are appended whole.
CalculateListNoSlice(avatar_body, weapon_body) ==
    IF Len(avatar_body) > Len(weapon_body)
    THEN AvatarRefs(avatar_body)
             \o AvatarRefs(SubSeq(avatar_body, Len(weapon_body) + 1, Len(avatar_body)))
    ELSE AvatarRefs(avatar_body) \o WeaponRefs(weapon_body)

\* Lines 203-207.
CalculateList(avatar_body, weapon_body) ==
    IF Len(avatar_body) > Len(weapon_body)
    THEN AvatarRefs(avatar_body)
             \o AvatarRefs(SubSeq(avatar_body, Len(weapon_body) + 1, Len(avatar_body)))
    ELSE AvatarRefs(avatar_body)
             \o WeaponRefs(SubSeq(weapon_body, Len(avatar_body) + 1, Len(weapon_body)))

\* len(calculate_list_chunked), line 209.
NumChunks(list) == Cardinality(ChunkStarts(Len(list), ChunkSize))

\* The responses of the calculation service to a chunk.
Responses == {
    [overall_consume |->
         <<[id |-> PoolIds[1], name |-> PoolNames[1], num |-> 100, lack_num |-> 30],
           [id |-> PoolIds[2], name |-> PoolNames[2], num |-> 50, lack_num |-> 0],
           [id |-> PoolIds[3], name |-> PoolNames[3], num |-> 20, lack_num |-> 0],
           [id |-> PoolIds[5], name |-> PoolNames[5], num |-> 40, lack_num |-> 0]>>,
     available_material |-> <<[id |-> PoolIds[1], num |-> 30]>>],
    [overall_consume |->
         <<[id |-> PoolIds[1], name |-> PoolNames[1], num |-> 90, lack_num |-> 0],
           [id |-> PoolIds[9], name |-> PoolNames[9], num |-> 5000, lack_num |-> 0]>>,
     available_material |-> <<[id |-> PoolIds[9], num |-> 1000],
                              [id |-> PoolIds[4], num |-> 2]>>] }

\* available_materials.get(id, 0), lines 214-216: the dict keeps the last num of an id.
AvailableGet(available, id) ==
    LET ks == {k \in 1..Len(available) : available[k].id = id}
    IN  IF ks = {} THEN 0 ELSE available[CHOOSE k \in ks : \A l \in ks : l <= k].num

\* Lines 214-217: the records one response adds to result.
Annotated(response) ==
    [m \in 1..Len(response.overall_consume) |->
        [id |-> response.overall_consume[m].id,
         name |-> response.overall_consume[m].name,
         num |-> response.overall_consume[m].num,
         lack_num |-> response.overall_consume[m].lack_num,
         extra |-> AvailableGet(response.available_material,
                                response.overall_consume[m].id)]]

\* A try/except around the call that goes on with the loop.
OnCalculateErrorSwallowed(pc) == pc

\* Where control is after self.calculate raises (lines 59-65 through 213):
\* nothing catches the exception, the frame is left.
OnCalculateError(pc) == "raised"

CalcIdle ==
    /\ calc_pc = "idle"
    /\ avatars = <<>>
    /\ weapons = <<>>
    /\ entities = <<>>
    /\ count = 0
    /\ avatar_objs = <<>>
    /\ calculate_list = <<>>
    /\ chunk_i = 0
    /\ simulated = <<>>
    /\ raised_at = 0
    /\ result = <<>>

\* The sequence of the ids of items whose chosen[i] is TRUE, in items' order.
Chosen(items, chosen) ==
    LET picked == SelectSeq([i \in 1..Len(items) |-> [id |-> items[i], c |-> chosen[i]]],
                            LAMBDA x : x.c)
    IN  [i \in 1..Len(picked) |-> picked[i].id]

\* A direct call calculate_selected_materials(entities, count).
CalcInit ==
    /\ calc_pc = "call"
    /\ avatars = SubSeq(AvatarPool, 1, MaxAvatars)
    /\ weapons = SubSeq(WeaponPool, 1, MaxWeapons)
    /\ \E chosen \in [1..(MaxAvatars + MaxWeapons) -> BOOLEAN] :
           entities = Chosen(avatars \o weapons, chosen)
    /\ count \in 0..MaxCount
    /\ avatar_objs = <<>>
    /\ calculate_list = <<>>
    /\ chunk_i = 0
    /\ simulated = <<>>
    /\ raised_at = 0
    /\ result = <<>>

\* Lines 186-211.
CalcBuild ==
    /\ calc_pc = "call"
    /\ LET avatars_to_select == ToSelect(avatars, entities)
           weapons_to_select == ToSelect(weapons, entities)
           avatar_body == Body(Len(avatars_to_select), count)
           weapon_body == Body(Len(weapons_to_select), count)
           generated == [k \in 1..Len(avatars_to_select) |->
                            [avatar_id |-> avatars_to_select[k], weapon |-> 0]]
       IN  /\ avatar_objs' = PairFrom(generated, avatar_body, weapon_body,
                                      weapons_to_select, 1)
           /\ calculate_list' = CalculateList(avatar_body, weapon_body)
    /\ chunk_i' = 1
    /\ result' = <<>>
    /\ calc_pc' = "simulate"
    /\ UNCHANGED <<avatars, weapons, entities, count, simulated, raised_at>>

\* One iteration of the loop of lines 212-217 whose self.calculate returns.
CalcSimulate ==
    /\ calc_pc = "simulate"
    /\ chunk_i <= NumChunks(calculate_list)
    /\ \E response \in Responses : result' = result \o Annotated(response)
    /\ simulated' = Append(simulated, chunk_i)
    /\ chunk_i' = chunk_i + 1
    /\ UNCHANGED <<calc_pc, avatars, weapons, entities, count, avatar_objs,
                   calculate_list, raised_at>>

\* The iteration whose self.calculate raises (raise_for_status or HoyoLabException).
CalcSimulateRaises ==
    /\ calc_pc = "simulate"
    /\ chunk_i <= NumChunks(calculate_list)
    /\ simulated' = Append(simulated, chunk_i)
    /\ raised_at' = chunk_i
    /\ calc_pc' = OnCalculateError(calc_pc)
    /\ UNCHANGED <<avatars, weapons, entities, count, avatar_objs, calculate_list,
                   chunk_i, result>>

\* Line 219.
CalcReturn ==
    /\ calc_pc = "simulate"
    /\ chunk_i > NumChunks(calculate_list)
    /\ calc_pc' = "returned"
    /\ UNCHANGED <<avatars, weapons, entities, count, avatar_objs, calculate_list,
                   chunk_i, simulated, raised_at, result>>

(***************************************************************************)
(* __main__ and get_all_materials.  remote_materials[i] is the material    *)
(* set the calculation service reports for the i-th of avatars + weapons;  *)
(* json_cache is genshin_mats.json, <<>> when the file does not exist.     *)
(***************************************************************************)
RemoteItems == SubSeq(AvatarPool, 1, MaxAvatars) \o SubSeq(WeaponPool, 1, MaxWeapons)

\* Lines 175-179: the dict computed from the service's answer.
ComputedDict(items, mats) ==
    [i \in 1..Len(items) |-> [key |-> IntKey(items[i]), materials |-> mats[i]]]

\* The same dict as json.dump writes it and json.load reads it back.
DumpedDict(dict) ==
    [i \in 1..Len(dict) |-> [key |-> StrKey(dict[i].key.n), materials |-> dict[i].materials]]

\* Line 157.
TravelerDupeCount(avatar_ids) ==
    Cardinality({i \in 1..Len(avatar_ids) : avatar_ids[i] = TravelerId}) * 2

\* Line 163.
CacheIsCurrent(data, n_avatars, n_weapons, dupes) ==
    Len(data) = n_avatars + n_weapons - dupes + 2

\* The material the i-th remote item needs, when it needs one.
OwnMaterial(i) == ((i - 1) % MainMaterials) + 1

\* dump_good's "materials" object, line 293.
GoodMaterials(good_result) ==
    [k \in 1..Len(good_result) |-> [good |-> good_result[k].good, num |-> good_result[k].num]]

MainIdle ==
    /\ main_pc = "idle"
    /\ remote_materials = <<>>
    /\ json_cache = <<>>
    /\ materials = <<>>
    /\ materials_in_inventory = <<>>
    /\ cleaned_materials = <<>>
    /\ good_materials_json = <<>>

MainInit ==
    /\ main_pc = "get_all_materials"
    /\ \E needs \in [1..Len(RemoteItems) -> BOOLEAN] :
           remote_materials =
               [i \in 1..Len(RemoteItems) |-> IF needs[i] THEN {OwnMaterial(i)} ELSE {}]
    /\ \E cache \in {"absent", "current", "older"} :
           json_cache =
               IF cache = "absent" THEN <<>>
               ELSE IF cache = "current"
                    THEN <<DumpedDict(ComputedDict(RemoteItems, remote_materials))>>
                    ELSE <<DumpedDict(ComputedDict(
                               SubSeq(RemoteItems, 1, Len(RemoteItems) - 1),
                               remote_materials))>>
    /\ materials = <<>>
    /\ materials_in_inventory = <<>>
    /\ cleaned_materials = <<>>
    /\ good_materials_json = <<>>
    /\ calc_pc = "idle"
    /\ avatars = <<>>
    /\ weapons = <<>>
    /\ entities = <<>>
    /\ count = 0
    /\ avatar_objs = <<>>
    /\ calculate_list = <<>>
    /\ chunk_i = 0
    /\ simulated = <<>>
    /\ raised_at = 0
    /\ result = <<>>

\* get_all_materials when a request of lines 148-149 or 174 raises.
GetAllMaterialsRaises ==
    /\ main_pc = "get_all_materials"
    /\ main_pc' = "aborted"
    /\ UNCHANGED <<remote_materials, json_cache, materials, materials_in_inventory,
                   cleaned_materials, good_materials_json>>
    /\ UNCHANGED calcVars

\* get_all_materials, lines 146-183, when every request succeeds.
GetAllMaterials ==
    /\ main_pc = "get_all_materials"
    /\ avatars' = SubSeq(AvatarPool, 1, MaxAvatars)
    /\ weapons' = SubSeq(WeaponPool, 1, MaxWeapons)
    /\ IF /\ json_cache # <<>>
          /\ CacheIsCurrent(json_cache[1], Len(avatars'), Len(weapons'),
                            TravelerDupeCount(avatars'))
       THEN /\ materials' = json_cache[1]
            /\ UNCHANGED json_cache
       ELSE /\ materials' = ComputedDict(avatars' \o weapons', remote_materials)
            /\ json_cache' = <<DumpedDict(materials')>>
    /\ main_pc' = "find_min_entity_needed"
    /\ UNCHANGED <<remote_materials, materials_in_inventory, cleaned_materials,
                   good_materials_json>>
    /\ UNCHANGED <<calc_pc, entities, count, avatar_objs, calculate_list, chunk_i,
                   simulated, raised_at, result>>

\* Line 308, and the call of line 312 with the default count.
MainFindMin ==
    /\ main_pc = "find_min_entity_needed"
    /\ LET found == FindMinEntityNeeded(materials)
       IN  IF found.ok
           THEN /\ entities' = found.entities
                /\ count' = DefaultCount
                /\ calc_pc' = "call"
                /\ main_pc' = "calculate_selected_materials"
           ELSE /\ main_pc' = "aborted"
                /\ UNCHANGED <<entities, count, calc_pc>>
    /\ UNCHANGED <<remote_materials, json_cache, materials, materials_in_inventory,
                   cleaned_materials, good_materials_json>>
    /\ UNCHANGED <<avatars, weapons, avatar_objs, calculate_list, chunk_i,
                   simulated, raised_at, result>>

\* Line 312 when the call returns.
MainCalcReturned ==
    /\ main_pc = "calculate_selected_materials"
    /\ calc_pc = "returned"
    /\ materials_in_inventory' = <<result>>
    /\ main_pc' = "clean_up_materials"
    /\ UNCHANGED <<remote_materials, json_cache, materials, cleaned_materials,
                   good_materials_json>>
    /\ UNCHANGED calcVars

\* Line 312 when the call raises: the exception leaves __main__ too.
MainCalcRaised ==
    /\ main_pc = "calculate_selected_materials"
    /\ calc_pc = "raised"
    /\ main_pc' = "aborted"
    /\ UNCHANGED <<remote_materials, json_cache, materials, materials_in_inventory,
                   cleaned_materials, good_materials_json>>
    /\ UNCHANGED calcVars

\* Line 313.
MainCleanUp ==
    /\ main_pc = "clean_up_materials"
    /\ cleaned_materials' = <<CleanUpMaterials(materials_in_inventory[1])>>
    /\ main_pc' = "dump_good"
    /\ UNCHANGED <<remote_materials, json_cache, materials, materials_in_inventory,
                   good_materials_json>>
    /\ UNCHANGED calcVars

\* Line 314.
MainDumpGood ==
    /\ main_pc = "dump_good"
    /\ good_materials_json' = <<GoodMaterials(cleaned_materials[1])>>
    /\ main_pc' = "done"
    /\ UNCHANGED <<remote_materials, json_cache, materials, materials_in_inventory,
                   cleaned_materials>>
    /\ UNCHANGED calcVars

(***************************************************************************)
(* Specifications: one per function run on its own inputs, and SpecMain    *)
(* for the pipeline of __main__.                                           *)
(***************************************************************************)
SpecSelInit == SelInit /\ NormIdle /\ CleanIdle /\ CalcIdle /\ MainIdle
SpecSelNext ==
    \/ SelBegin /\ UNCHANGED <<normVars, cleanVars, calcVars, mainVars>>
    \/ SelIterate /\ UNCHANGED <<normVars, cleanVars, calcVars, mainVars>>
    \/ SelReturn /\ UNCHANGED <<normVars, cleanVars, calcVars, mainVars>>
SpecSel == SpecSelInit /\ [][SpecSelNext]_vars

SpecNormInit == NormInit /\ SelIdle /\ CleanIdle /\ CalcIdle /\ MainIdle
SpecNormNext == NormApply /\ UNCHANGED <<selVars, cleanVars, calcVars, mainVars>>
SpecNorm == SpecNormInit /\ [][SpecNormNext]_vars

SpecCleanInit == CleanInit /\ SelIdle /\ NormIdle /\ CalcIdle /\ MainIdle
SpecCleanNext ==
    \/ CleanDedup /\ UNCHANGED <<selVars, normVars, calcVars, mainVars>>
    \/ CleanGroup /\ UNCHANGED <<selVars, normVars, calcVars, mainVars>>
    \/ ProcessPosition /\ UNCHANGED <<selVars, normVars, calcVars, mainVars>>
    \/ CleanReturn /\ UNCHANGED <<selVars, normVars, calcVars, mainVars>>
SpecClean == SpecCleanInit /\ [][SpecCleanNext]_vars

SpecCalcInit == CalcInit /\ SelIdle /\ NormIdle /\ CleanIdle /\ MainIdle
SpecCalcNext ==
    \/ CalcBuild /\ UNCHANGED <<selVars, normVars, cleanVars, mainVars>>
    \/ CalcSimulate /\ UNCHANGED <<selVars, normVars, cleanVars, mainVars>>
    \/ CalcSimulateRaises /\ UNCHANGED <<selVars, normVars, cleanVars, mainVars>>
    \/ CalcReturn /\ UNCHANGED <<selVars, normVars, cleanVars, mainVars>>
SpecCalc == SpecCalcInit /\ [][SpecCalcNext]_vars

SpecMainInit == MainInit /\ SelIdle /\ NormIdle /\ CleanIdle
SpecMainNext ==
    \/ GetAllMaterialsRaises /\ UNCHANGED <<selVars, normVars, cleanVars>>
    \/ GetAllMaterials /\ UNCHANGED <<selVars, normVars, cleanVars>>
    \/ MainFindMin /\ UNCHANGED <<selVars, normVars, cleanVars>>
    \/ CalcBuild /\ UNCHANGED <<selVars, normVars, cleanVars, mainVars>>
    \/ CalcSimulate /\ UNCHANGED <<selVars, normVars, cleanVars, mainVars>>
    \/ CalcSimulateRaises /\ UNCHANGED <<selVars, normVars, cleanVars, mainVars>>
    \/ CalcReturn /\ UNCHANGED <<selVars, normVars, cleanVars, mainVars>>
    \/ MainCalcReturned /\ UNCHANGED <<selVars, normVars, cleanVars>>
    \/ MainCalcRaised /\ UNCHANGED <<selVars, normVars, cleanVars>>
    \/ MainCleanUp /\ UNCHANGED <<selVars, normVars, cleanVars>>
    \/ MainDumpGood /\ UNCHANGED <<selVars, normVars, cleanVars>>
SpecMain == SpecMainInit /\ [][SpecMainNext]_vars

(***************************************************************************)
(* Claims about find_min_entity_needed (SpecSel).                          *)
(***************************************************************************)
\* The item id an entry of the catalog stands for, read off its key.
EntityOf(entry) ==
    CHOOSE n \in 0..(SelEntityId(MaxEntities) + 9) : entry.key \in {IntKey(n), StrKey(n)}

CatalogEntities == {EntityOf(item_materials_dict[i]) : i \in 1..Len(item_materials_dict)}

MaterialsOfEntities(ids) ==
    UNION {item_materials_dict[i].materials :
           i \in {j \in 1..Len(item_materials_dict) :
                  EntityOf(item_materials_dict[j]) \in ids}}

\* C1: when find_min_entity_needed returns, the returned list holds only
\* entities of the catalog, holds none twice, and the materials of the
\* returned entities together are the materials of the whole catalog.
C1_CoverageComplete ==
    sel_pc = "done" =>
        /\ Range(selected_entities) \subseteq CatalogEntities
        /\ \A i, j \in 1..Len(selected_entities) :
               selected_entities[i] = selected_entities[j] => i = j
        /\ MaterialsOfEntities(Range(selected_entities)) =
               MaterialsOfEntities(CatalogEntities)

C1_Witness ==
    /\ sel_pc = "done"
    /\ Len(selected_entities) >= 2
    /\ Len(selected_entities) < Len(item_materials_dict)
    /\ \E i \in 1..Len(item_materials_dict) :
           /\ item_materials_dict[i].materials = {}
           /\ item_materials_dict[i].key.t = "str"

C2_Inv ==
    /\ sel_pc # "TypeError"
    /\ Len(selected_entities) <= Len(item_materials_dict)
    /\ sel_pc = "loop" =>
           Len(item_materials_dict_copy) =
               Len(item_materials_dict) - Len(selected_entities)
    /\ (sel_pc = "loop" /\ Len(selected_entities) = Len(item_materials_dict)) =>
           covered_materials = all_materials

C2_Step ==
    /\ covered_materials \subseteq covered_materials'
    /\ (sel_pc = "loop" /\ sel_pc' = "loop") =>
           /\ Len(item_materials_dict_copy') = Len(item_materials_dict_copy) - 1
           /\ Len(selected_entities') = Len(selected_entities) + 1
           /\ covered_materials' # covered_materials

\* C2: the loop makes at most |catalog| iterations (after |catalog| of them
\* everything is covered), the chosen entity is never None, the covered set
\* never shrinks, and every iteration removes exactly one entity from the
\* pool and strictly enlarges the covered set.
C2_Termination == []C2_Inv /\ [][C2_Step]_vars

C2_Witness ==
    /\ sel_pc = "loop"
    /\ Len(item_materials_dict) >= 2
    /\ Len(selected_entities) = Len(item_materials_dict)
    /\ covered_materials = all_materials

(***************************************************************************)
(* Claims about the name normalisation (SpecNorm).  good_names is          *)
(* <<x, normalize(x), normalize(normalize(x)), ...>>.                      *)
(***************************************************************************)
\* C4 as stated: normalize(normalize(x)) = normalize(x) for every raw name.
C4_Idempotent == Len(good_names) >= 3 => good_names[3] = good_names[2]

\* C4 as amended: normalize(normalize(x)) is normalize(x) with its first
\* character in upper case and every later character in lower case, and from
\* the second application on the normalisation changes nothing.
C4_SecondApplication ==
    /\ Len(good_names) >= 3 =>
           good_names[3] =
               [i \in 1..Len(good_names[2]) |->
                    IF i = 1 THEN Upper(good_names[2][i]) ELSE Lower(good_names[2][i])]
    /\ Len(good_names) >= 4 => good_names[4] = good_names[3]

C4_Witness ==
    /\ Len(good_names) = 4
    /\ good_names[3] # good_names[2]
    /\ \E i \in 1..Len(good_names[1]) : good_names[1][i] \in {"-", " "}

(***************************************************************************)
(* Claims about clean_up_materials and process_item_iterative (SpecClean). *)
(***************************************************************************)
\* The normalised name of every record of materials_arg.
RecordGoods == [r \in 1..Len(materials_arg) |-> GoodName(materials_arg[r].name)]

\* The first record among those named like record r whose num is their maximum.
FirstMaximal(goods, r) ==
    LET same == {q \in 1..Len(goods) : goods[q] = goods[r]}
    IN  CHOOSE f \in same :
            /\ \A q \in same : NewNum(materials_arg[q]) <= NewNum(materials_arg[f])
            /\ \A q \in same :
                   NewNum(materials_arg[q]) = NewNum(materials_arg[f]) => f <= q

DedupFinished == clean_pc = "dedup" /\ material_i > Len(materials_arg)

\* C6: after the dedup loop, each normalised name has one item; its num is
\* the maximum of required_num - lack_num + extra over the records of that
\* name and its id and extra are those of the first record with that maximum.
C6_DedupByMaximum ==
    DedupFinished =>
        \A goods \in {RecordGoods} :
            /\ \A r \in 1..Len(materials_arg) :
                   LET first == materials_arg[FirstMaximal(goods, r)]
                       k == IndexOfGood(cleaned_items, goods[r])
                   IN  /\ k # 0
                       /\ cleaned_items[k].num = first.num - first.lack_num + first.extra
                       /\ cleaned_items[k].id = first.id
                       /\ cleaned_items[k].extra = first.extra
            /\ \A k \in 1..Len(cleaned_items) :
                   \E r \in 1..Len(goods) : goods[r] = cleaned_items[k].good
            /\ \A k, l \in 1..Len(cleaned_items) :
                   cleaned_items[k].good = cleaned_items[l].good => k = l

C6_Witness ==
    /\ DedupFinished
    /\ Len(materials_arg) = 2
    /\ materials_arg[1].name # materials_arg[2].name
    /\ NewNum(materials_arg[1]) = 100
    /\ NewNum(materials_arg[2]) = 150
    /\ Len(cleaned_items) = 1
    /\ cleaned_items[1].num = 150
    /\ cleaned_items[1].id = materials_arg[2].id

\* The items as the dedup loop left them, before any redistribution.
InitialItems == DedupFrom(<<>>, materials_arg, 1)

\* The extras along a chain, read from items.
ChainExtras(items, chain) ==
    [j \in 1..Len(chain) |-> items[IndexOfGood(items, chain[j])].extra]

\* What the items before position j of a chain take from the item at j:
\* source i counts when extra_i > 0 and j is the nearest position after i
\* with extra 0.
TakenAt(extras, j) ==
    SeqSum([i \in 1..(j - 1) |->
               IF /\ extras[i] > 0
                  /\ extras[j] = 0
                  /\ \A m \in (i + 1)..(j - 1) : extras[m] # 0
               THEN extras[i] \div (3 ^ (j - i))
               ELSE 0])

TakenFrom(items, good) ==
    SeqSum([c \in 1..Len(materials_group_to_check) |->
               LET chain == materials_group_to_check[c]
               IN  IF \E j \in 1..Len(chain) : chain[j] = good
                   THEN TakenAt(ChainExtras(items, chain),
                                CHOOSE j \in 1..Len(chain) : chain[j] = good)
                   ELSE 0])

\* C5: when process_item_iterative is done, each item's num is its num before
\* the redistribution minus floor(extra_i / 3^(j - i)) for every source i of
\* its chain with extra_i > 0 for which the item's position j is the nearest
\* later position with extra 0; nothing else changes.
C5_Redistribution ==
    clean_pc = "done" =>
        \A initial \in {InitialItems} :
            /\ Len(cleaned_items) = Len(initial)
            /\ \A k \in 1..Len(cleaned_items) :
                   cleaned_items[k] =
                       [initial[k] EXCEPT !.num = @ - TakenFrom(initial, initial[k].good)]

\* The example of the specification: A(extra 30, num 100), B(0, 50), C(0, 20).
C5_Witness ==
    /\ clean_pc = "done"
    /\ \E c \in 1..Len(materials_group_to_check) :
           LET chain == materials_group_to_check[c]
               initial == InitialItems
           IN  /\ Len(chain) = 3
               /\ initial[IndexOfGood(initial, chain[1])].extra = 30
               /\ initial[IndexOfGood(initial, chain[1])].num = 100
               /\ initial[IndexOfGood(initial, chain[2])].extra = 0
               /\ initial[IndexOfGood(initial, chain[2])].num = 50
               /\ initial[IndexOfGood(initial, chain[3])].extra = 0
               /\ cleaned_items[IndexOfGood(cleaned_items, chain[1])].num = 100
               /\ cleaned_items[IndexOfGood(cleaned_items, chain[2])].num = 40
               /\ cleaned_items[IndexOfGood(cleaned_items, chain[3])].num = 20

IdOfGood(good) == cleaned_items[IndexOfGood(cleaned_items, good)].id

ChainTier(chain) == IF IsFourTier(IdOfGood(chain[1])) THEN 4 ELSE 3

ChainsBuilt == clean_pc \in {"process", "done"}

\* C8 as stated: every chain of tier t has exactly t items.
C8_ExactlyTier ==
    ChainsBuilt =>
        \A c \in 1..Len(materials_group_to_check) :
            Len(materials_group_to_check[c]) = ChainTier(materials_group_to_check[c])

\* The names of a tier in descending id order.
TierNames(tier) ==
    LET group == MaterialGroup(SortedCleanedItems(cleaned_items), tier)
    IN  [j \in 1..Len(group) |-> group[j].good]

\* C8 as amended: every chain of tier t has between 1 and t items, which are
\* (reversed) consecutive items of the tier's descending-id ordering starting
\* at a multiple of t; a tier of n items has ceil(n / t) chains, so only the
\* chain of its lowest ids may be shorter than t, with n mod t items.
C8_AtMostTier ==
    ChainsBuilt =>
        /\ \A c \in 1..Len(materials_group_to_check) :
               LET chain == materials_group_to_check[c]
                   tier == ChainTier(chain)
                   names == TierNames(tier)
               IN  /\ Len(chain) >= 1 /\ Len(chain) <= tier
                   /\ \A j \in 1..Len(chain) :
                          IsFourTier(IdOfGood(chain[j])) \/ IsThreeTier(IdOfGood(chain[j]))
                   /\ \E b \in 0..((Len(names) - 1) \div tier) :
                          Reverse(chain) =
                              SubSeq(names, b * tier + 1, Min(b * tier + tier, Len(names)))
        /\ \A tier \in {3, 4} :
               Cardinality({c \in 1..Len(materials_group_to_check) :
                                ChainTier(materials_group_to_check[c]) = tier})
                   = (Len(TierNames(tier)) + tier - 1) \div tier

C8_Witness ==
    /\ ChainsBuilt
    /\ \E c, d \in 1..Len(materials_group_to_check) :
           /\ ChainTier(materials_group_to_check[c]) = 3
           /\ Len(materials_group_to_check[c]) = 1
           /\ ChainTier(materials_group_to_check[d]) = 4
           /\ Len(materials_group_to_check[d]) = 4

ChainIds(chain) == {IdOfGood(chain[j]) : j \in 1..Len(chain)}

\* Chain a has been processed and chain b has not.
ProcessedBefore(a, b) ==
    /\ clean_pc = "process"
    /\ a \in 1..Len(materials_group_to_check)
    /\ b \in 1..Len(materials_group_to_check)
    /\ a < chain_i
    /\ chain_i <= b

\* C9 as stated: a chain of tier 3 is never processed before a chain of tier
\* 4, and within a tier the chain processed first holds the higher ids.
C9_HigherFirst ==
    \A a, b \in 1..Len(materials_group_to_check) :
        ProcessedBefore(a, b) =>
            LET first == materials_group_to_check[a]
                later == materials_group_to_check[b]
            IN  /\ ~(ChainTier(first) = 3 /\ ChainTier(later) = 4)
                /\ ChainTier(first) = ChainTier(later) =>
                       \A x \in ChainIds(first), y \in ChainIds(later) : x >= y

\* C9 as amended: a chain of tier 4 is never processed before a chain of tier
\* 3, and within a tier the chain processed first holds the lower ids.
C9_LowerFirst ==
    \A a, b \in 1..Len(materials_group_to_check) :
        ProcessedBefore(a, b) =>
            LET first == materials_group_to_check[a]
                later == materials_group_to_check[b]
            IN  /\ ~(ChainTier(first) = 4 /\ ChainTier(later) = 3)
                /\ ChainTier(first) = ChainTier(later) =>
                       \A x \in ChainIds(first), y \in ChainIds(later) : x <= y

C9_Witness ==
    /\ clean_pc = "process"
    /\ Len(materials_group_to_check) = 3
    /\ chain_i = 3
    /\ ChainTier(materials_group_to_check[1]) = 3
    /\ ChainTier(materials_group_to_check[2]) = 3
    /\ ChainTier(materials_group_to_check[3]) = 4

\* The redistribution with the search made afresh for every source position.
RECURSIVE NaiveChainFrom(_, _, _)
NaiveChainFrom(item_list, i, good_result) ==
    IF i > Len(item_list) THEN good_result
    ELSE LET extra == ExtraOf(good_result, item_list[i])
             target == FirstZeroAfter(item_list, i, good_result)
         IN  NaiveChainFrom(item_list, i + 1,
                 IF extra > 0 /\ target # 0
                 THEN [good_result EXCEPT
                           ![IndexOfGood(good_result, item_list[target])].num =
                               @ - (extra \div (3 ^ (target - i)))]
                 ELSE good_result)

RECURSIVE NaiveFrom(_, _, _)
NaiveFrom(groups, c, good_result) ==
    IF c > Len(groups) THEN good_result
    ELSE NaiveFrom(groups, c + 1, NaiveChainFrom(groups[c], 1, good_result))

\* The position being processed holds a source and a target is cached for it.
SourceWithCachedTarget ==
    /\ clean_pc = "process"
    /\ chain_i <= Len(materials_group_to_check)
    /\ ExtraOf(cleaned_items, materials_group_to_check[chain_i][current_index]) > 0
    /\ next_valid_index # 0
    /\ ExtraOf(cleaned_items, materials_group_to_check[chain_i][next_valid_index]) = 0

\* C10 as stated: the cached index is kept from one source position to the
\* next and searched again only when the cached target's extra is non-zero.
C10_CacheKept ==
    [][(SourceWithCachedTarget /\ chain_i' = chain_i) =>
           next_valid_index' = next_valid_index]_vars

\* C10 as amended: a cached target always has extra 0, which is the very
\* condition for searching again, so the target is searched afresh for every
\* source and the final items are those of the naive per-position rescan.
C10_SameAsNaive ==
    /\ (clean_pc = "process" /\ next_valid_index # 0) =>
           ExtraOf(cleaned_items, materials_group_to_check[chain_i][next_valid_index]) = 0
    /\ clean_pc = "done" =>
           cleaned_items = NaiveFrom(materials_group_to_check, 1, InitialItems)

\* A chain with extras (> 0, 0, > 0, 0): two targets ahead of the first source.
C10_Witness ==
    /\ clean_pc = "done"
    /\ \E c \in 1..Len(materials_group_to_check) :
           LET chain == materials_group_to_check[c]
               extras == ChainExtras(cleaned_items, chain)
           IN  /\ Len(chain) = 4
               /\ extras[1] > 0 /\ extras[2] = 0 /\ extras[3] > 0 /\ extras[4] = 0
               /\ cleaned_items[IndexOfGood(cleaned_items, chain[4])].num <
                      NewNum(materials_arg[CHOOSE r \in 1..Len(materials_arg) :
                                 GoodName(materials_arg[r].name) = chain[4]])

(***************************************************************************)
(* Claims about calculate_selected_materials (SpecCalc) and the pipeline   *)
(* (SpecMain).                                                             *)
(***************************************************************************)
NumChars == Cardinality({i \in 1..Len(avatars) : avatars[i] \in Range(entities)})
NumWeapons == Cardinality({i \in 1..Len(weapons) : weapons[i] \in Range(entities)})

ListBuilt == calc_pc \in {"simulate", "returned", "raised"}

Max(a, b) == IF a > b THEN a ELSE b
Abs(a) == IF a < 0 THEN 0 - a ELSE a

\* C3 as stated: the combined list has
\* count * max(num_chars, num_weapons) + count * |num_chars - num_weapons| entries.
C3_LengthLaw ==
    ListBuilt =>
        Len(calculate_list) =
            count * Max(NumChars, NumWeapons) + count * Abs(NumChars - NumWeapons)

\* C3 as amended: the combined list has count * num_chars +
\* count * (num_chars - num_weapons) entries when there are more characters
\* than weapons, and count * num_weapons entries otherwise.
C3_LengthByBranch ==
    ListBuilt =>
        Len(calculate_list) =
            IF NumChars > NumWeapons
            THEN count * NumChars + count * (NumChars - NumWeapons)
            ELSE count * NumWeapons

C3_Witness ==
    /\ ListBuilt
    /\ count = 2
    /\ NumChars = 1
    /\ NumWeapons = 2
    /\ Len(calculate_list) = 4

\* C7: the chunks are simulated one after another in list order; once the
\* simulate call has raised on chunk k no later chunk is simulated, the call
\* yields no result list and the pipeline never cleans up or exports; an
\* export exists only when the catalog was obtained, every chunk was
\* simulated without an error and the redistribution was done.
C7_NoPartialResult ==
    /\ simulated = [k \in 1..Len(simulated) |-> k]
    /\ Len(simulated) <= NumChunks(calculate_list)
    /\ raised_at # 0 =>
           /\ Len(simulated) = raised_at
           /\ calc_pc = "raised"
           /\ main_pc \in {"calculate_selected_materials", "aborted"}
           /\ materials_in_inventory = <<>>
           /\ cleaned_materials = <<>>
           /\ good_materials_json = <<>>
    /\ main_pc = "aborted" => good_materials_json = <<>>
    /\ good_materials_json # <<>> =>
           /\ main_pc = "done"
           /\ avatars # <<>>
           /\ Len(materials) = Len(avatars) + Len(weapons)
           /\ calc_pc = "returned"
           /\ raised_at = 0
           /\ Len(simulated) = NumChunks(calculate_list)
           /\ materials_in_inventory = <<result>>
           /\ cleaned_materials = <<CleanUpMaterials(result)>>
           /\ good_materials_json = <<GoodMaterials(cleaned_materials[1])>>

\* The second of two chunks fails: the records of the first are dropped.
C7_Witness ==
    /\ main_pc = "aborted"
    /\ raised_at = 2
    /\ NumChunks(calculate_list) = 2
    /\ Len(result) > 0
    /\ materials_in_inventory = <<>>
    /\ good_materials_json = <<>>

====
